---- MODULE Spec2Model ----
\* Model of OpenPAF core: the VoxelGrid type (core/voxelgrid.go), the Voxel
\* type and the divmod helper.
\*
\* float32 values are modelled as fixed-point numbers in quarters (One == 4
\* stands for 1.0) plus the IEEE NaN; requested world-space extents are
\* rationals <<numerator, denominator>>.
\*
\* A panic is recorded in ret.fault and leaves the grids as they were; the
\* caller goes on (as under recover). The coordinates and indexes of a call are
\* not kept in the state: a formula about them quantifies over the parameters
\* of the action.
EXTENDS Integers, Sequences, FiniteSets, TLC

VARIABLES
    grids,   \* the grids of the program: "vg" from NewVoxelGrid, "newGrid" from Copy
    op,      \* the last call: its name, its receiver and its float32 argument
    ret,     \* what the last call returned, or how it faulted
    ncalls   \* number of mutator calls made so far

vars == <<grids, op, ret, ncalls>>

\* ---------------------------------------------------------------- bounds
MaxCoord  == 2   \* largest x, y or z passed to getIndex / Get / Set
MaxIndex  == 9   \* largest index passed to getCoordinate
MaxCalls  == 2   \* number of mutator calls (Set, Fill, Randomize, HighPass)

\* ------------------------------------------------------- float32 numbers
Half == 2                 \* the literal 0.5 of VertexPoints
One  == 2 * Half          \* the literal 1 of Fill and HighPass

F(q) == [nan |-> FALSE, q |-> q]
NaN  == [nan |-> TRUE, q |-> 0]

\* IEEE comparisons: every comparison with NaN is false
Lt(a, b) == ~a.nan /\ ~b.nan /\ a.q < b.q
Gt(a, b) == ~a.nan /\ ~b.nan /\ a.q > b.q

\* math32.Max / math32.Min: NaN if either argument is NaN
Max32(a, b) == IF a.nan \/ b.nan THEN NaN ELSE IF a.q > b.q THEN a ELSE b
Min32(a, b) == IF a.nan \/ b.nan THEN NaN ELSE IF a.q < b.q THEN a ELSE b

\* arguments offered to Set, Fill and HighPass: -0.25, 0.5, 1, 1.25, NaN
Values == {F(0 - 1), F(Half), F(One), F(One + 1), NaN}

\* extents offered to NewVoxelGrid: 0.25 and -0.5
Extents == {<<1, 4>>, <<0 - 1, 2>>}
Resolutions == {0, 1, 3}
Seeds   == {7, 42}
Names   == {"vg", "newGrid"}

\* ----------------------------------------------------------------- grid
\* The nil *VoxelGrid
NilGrid == [live |-> FALSE, resolution |-> 0, counts |-> <<0, 0, 0>>, voxels |-> <<>>]

Abs(n) == IF n < 0 THEN 0 - n ELSE n

\* uint(math32.Ceil(math32.Abs(extent * float32(resolution))))
CeilAbsMul(extent, resolution) ==
    (Abs(extent[1] * resolution) + extent[2] - 1) \div extent[2]

NewVoxelGridOf(width, height, depth, resolution) ==
    LET w == CeilAbsMul(width, resolution)
        h == CeilAbsMul(height, resolution)
        d == CeilAbsMul(depth, resolution)
    IN  [live |-> TRUE, resolution |-> resolution, counts |-> <<w, h, d>>,
         voxels |-> [i \in 1 .. w * h * d |-> F(0)]]

\* divmod; a zero denominator is a runtime panic, reported by the callers
divmod(numerator, denominator) ==
    [quotient |-> numerator \div denominator, remainder |-> numerator % denominator]

\* Result of a call: fault is "none", "panic" (the panic(fmt.Errorf(..)) of
\* getIndex/getCoordinate), "range" (runtime index out of range) or
\* "divide" (runtime integer divide by zero).
NoRet == [fault |-> "none", idx |-> 0, coord |-> <<0, 0, 0>>, val |-> F(0),
          points |-> <<>>, grid |-> "", triangles |-> <<>>]

getIndexOf(g, x, y, z) ==
    LET w == g.counts[1]
        h == g.counts[2]
        d == g.counts[3]
    IN  IF x >= w \/ y >= h \/ z >= d
        THEN [NoRet EXCEPT !.fault = "panic"]
        ELSE [NoRet EXCEPT !.idx = (w * h * z) + (w * y) + x]

getCoordinateOf(g, index) ==
    IF index > Len(g.voxels)
    THEN [NoRet EXCEPT !.fault = "panic"]
    ELSE IF g.counts[3] = 0 \/ g.counts[2] = 0 \/ g.counts[1] = 0
    THEN [NoRet EXCEPT !.fault = "divide"]
    ELSE LET zd == divmod(index, g.counts[3])
             yd == divmod(zd.quotient, g.counts[2])
             x  == yd.quotient % g.counts[1]
         IN  [NoRet EXCEPT !.coord = <<x, yd.remainder, zd.remainder>>]

\* vg.voxels[vg.getIndex(x, y, z)]
GetOf(g, x, y, z) ==
    LET i == getIndexOf(g, x, y, z)
    IN  IF i.fault # "none" THEN i
        ELSE IF i.idx >= Len(g.voxels) THEN [NoRet EXCEPT !.fault = "range"]
        ELSE [NoRet EXCEPT !.val = g.voxels[i.idx + 1]]

\* vg.voxels[vg.getIndex(x, y, z)] = vox
SetOf(g, x, y, z, vox) ==
    LET i == getIndexOf(g, x, y, z)
    IN  IF i.fault # "none" \/ i.idx >= Len(g.voxels) THEN g
        ELSE [g EXCEPT !.voxels[i.idx + 1] = vox]

\* newGrid := &VoxelGrid{counts: vg.counts}; copy(newGrid.voxels, vg.voxels)
\* copies min(len(dst), len(src)) = 0 elements into the nil slice
CopyOf(g) ==
    [live |-> TRUE, resolution |-> 0, counts |-> g.counts, voxels |-> <<>>]

\* Fill without the upper clamp
FillValueNoMin(value) == Max32(F(0), value)

\* value = math32.Min(1, math32.Max(0, value))
FillValue(value) == Min32(F(One), Max32(F(0), value))

FillOf(g, value) ==
    [g EXCEPT !.voxels = [i \in 1 .. Len(g.voxels) |-> FillValue(value)]]

\* rand.New(rand.NewSource(seed)): a deterministic stream in [0, 1); the k-th
\* Float32() of the generator (k from 1) is a function of the seed alone.
\* math/rand is a library: its generator is stood for by a small linear
\* congruential one, of which only these two facts are used.
RECURSIVE RandState(_, _)
RandState(seed, k) ==
    IF k = 0 THEN seed % 16 ELSE (5 * RandState(seed, k - 1) + 3) % 16

Float32Of(seed, k) == F(RandState(seed, k) % One)

RandomizeOf(g, seed) ==
    [g EXCEPT !.voxels = [i \in 1 .. Len(g.voxels) |-> Float32Of(seed, i)]]

\* HighPass with >= in place of >
HighPassVoxelGe(v, tolerance) ==
    IF Gt(v, tolerance) \/ (~v.nan /\ v = tolerance) THEN F(One) ELSE F(0)

\* vg.voxels[i] = 0; if float32(v) > tolerance { vg.voxels[i] = 1 }
HighPassVoxel(v, tolerance) == IF Gt(v, tolerance) THEN F(One) ELSE F(0)

HighPassOf(g, tolerance) ==
    [g EXCEPT !.voxels = [i \in 1 .. Len(g.voxels) |-> HighPassVoxel(g.voxels[i], tolerance)]]

\* float32(n) / float32(resolution), kept as the fraction <<n, resolution>>
Quot(n, resolution) == <<n, resolution>>

\* whether VertexPoints skips the voxel (the `continue`)
Skipped(v) == Lt(v, F(Half))

RECURSIVE VertexPointsFrom(_, _)
VertexPointsFrom(g, i) ==
    IF i >= Len(g.voxels) THEN <<>>
    ELSE IF Skipped(g.voxels[i + 1]) THEN VertexPointsFrom(g, i + 1)
    ELSE LET c == getCoordinateOf(g, i).coord
         IN  << <<Quot(c[1], g.resolution), Quot(c[2], g.resolution),
                  Quot(c[3], g.resolution)>> >> \o VertexPointsFrom(g, i + 1)

\* a panic of getCoordinate ends VertexPoints
VertexPointsOf(g) ==
    IF \E i \in 0 .. Len(g.voxels) - 1 :
           ~Skipped(g.voxels[i + 1]) /\ getCoordinateOf(g, i).fault # "none"
    THEN [NoRet EXCEPT !.fault = "divide"]
    ELSE [NoRet EXCEPT !.points = VertexPointsFrom(g, 0)]

\* Mesh has an empty body: it produces no triangle
MeshOf(g) == <<>>

\* --------------------------------------------------------------- actions
NoOp == [name |-> "", recv |-> "", val |-> F(0)]

Coords  == 0 .. MaxCoord
Indexes == 0 .. MaxIndex

Init ==
    /\ grids = [n \in Names |-> NilGrid]
    /\ op = NoOp
    /\ ret = NoRet
    /\ ncalls = 0

NewVoxelGrid(width, height, depth, resolution) ==
    /\ ~grids["vg"].live
    /\ grids' = [grids EXCEPT !["vg"] = NewVoxelGridOf(width, height, depth, resolution)]
    /\ op' = [NoOp EXCEPT !.name = "NewVoxelGrid", !.recv = "vg"]
    /\ ret' = [NoRet EXCEPT !.grid = "vg"]
    /\ UNCHANGED ncalls

getIndex(r, x, y, z) ==
    /\ grids[r].live
    /\ op' = [NoOp EXCEPT !.name = "getIndex", !.recv = r]
    /\ ret' = getIndexOf(grids[r], x, y, z)
    /\ UNCHANGED <<grids, ncalls>>

getCoordinate(r, index) ==
    /\ grids[r].live
    /\ op' = [NoOp EXCEPT !.name = "getCoordinate", !.recv = r]
    /\ ret' = getCoordinateOf(grids[r], index)
    /\ UNCHANGED <<grids, ncalls>>

Get(r, x, y, z) ==
    /\ grids[r].live
    /\ op' = [NoOp EXCEPT !.name = "Get", !.recv = r]
    /\ ret' = GetOf(grids[r], x, y, z)
    /\ UNCHANGED <<grids, ncalls>>

Set(r, x, y, z, vox) ==
    /\ grids[r].live
    /\ ncalls < MaxCalls
    /\ grids' = [grids EXCEPT ![r] = SetOf(grids[r], x, y, z, vox)]
    /\ op' = [NoOp EXCEPT !.name = "Set", !.recv = r, !.val = vox]
    /\ ret' = [NoRet EXCEPT !.fault = GetOf(grids[r], x, y, z).fault]
    /\ ncalls' = ncalls + 1

Copy(r) ==
    /\ grids[r].live
    /\ grids' = [grids EXCEPT !["newGrid"] = CopyOf(grids[r])]
    /\ op' = [NoOp EXCEPT !.name = "Copy", !.recv = r]
    /\ ret' = [NoRet EXCEPT !.grid = "newGrid"]
    /\ UNCHANGED ncalls

Fill(r, value) ==
    /\ grids[r].live
    /\ ncalls < MaxCalls
    /\ grids' = [grids EXCEPT ![r] = FillOf(grids[r], value)]
    /\ op' = [NoOp EXCEPT !.name = "Fill", !.recv = r, !.val = value]
    /\ ret' = [NoRet EXCEPT !.grid = r]
    /\ ncalls' = ncalls + 1

Randomize(r, seed) ==
    /\ grids[r].live
    /\ ncalls < MaxCalls
    /\ grids' = [grids EXCEPT ![r] = RandomizeOf(grids[r], seed)]
    /\ op' = [NoOp EXCEPT !.name = "Randomize", !.recv = r]
    /\ ret' = [NoRet EXCEPT !.grid = r]
    /\ ncalls' = ncalls + 1

HighPass(r, tolerance) ==
    /\ grids[r].live
    /\ ncalls < MaxCalls
    /\ grids' = [grids EXCEPT ![r] = HighPassOf(grids[r], tolerance)]
    /\ op' = [NoOp EXCEPT !.name = "HighPass", !.recv = r, !.val = tolerance]
    /\ ret' = [NoRet EXCEPT !.grid = r]
    /\ ncalls' = ncalls + 1

VertexPoints(r) ==
    /\ grids[r].live
    /\ op' = [NoOp EXCEPT !.name = "VertexPoints", !.recv = r]
    /\ ret' = VertexPointsOf(grids[r])
    /\ UNCHANGED <<grids, ncalls>>

Mesh(r) ==
    /\ grids[r].live
    /\ op' = [NoOp EXCEPT !.name = "Mesh", !.recv = r]
    /\ ret' = [NoRet EXCEPT !.triangles = MeshOf(grids[r])]
    /\ UNCHANGED <<grids, ncalls>>

\* The grid-to-grid transforms of a pipeline, from construction
NextMutators ==
    \/ \E width \in Extents, height \in Extents, depth \in Extents, resolution \in Resolutions :
          NewVoxelGrid(width, height, depth, resolution)
    \/ \E r \in Names, x \in Coords, y \in Coords, z \in Coords, vox \in Values : Set(r, x, y, z, vox)
    \/ \E r \in Names, value \in Values : Fill(r, value)
    \/ \E r \in Names, seed \in Seeds : Randomize(r, seed)
    \/ \E r \in Names, tolerance \in Values : HighPass(r, tolerance)

Next ==
    \/ NextMutators
    \/ \E r \in Names, x \in Coords, y \in Coords, z \in Coords : getIndex(r, x, y, z)
    \/ \E r \in Names, index \in Indexes : getCoordinate(r, index)
    \/ \E r \in Names, x \in Coords, y \in Coords, z \in Coords : Get(r, x, y, z)
    \/ \E r \in Names : Copy(r)
    \/ \E r \in Names : VertexPoints(r)
    \/ \E r \in Names : Mesh(r)

Spec == Init /\ [][Next]_vars

SpecMutators == Init /\ [][NextMutators]_vars

\* ------------------------------------------------- vocabulary of the claims
Vg == grids["vg"]

Width(g)  == g.counts[1]
Height(g) == g.counts[2]
Depth(g)  == g.counts[3]
Cells(g)  == Width(g) * Height(g) * Depth(g)

InBounds(g, x, y, z) == x < Width(g) /\ y < Height(g) /\ z < Depth(g)

\* the row-major linearization index = w*h*z + w*y + x
RowMajor(g, x, y, z) == (Width(g) * Height(g) * z) + (Width(g) * y) + x

\* the coordinate whose row-major index is i, for i < w*h*d
RowMajorCoord(g, i) ==
    CHOOSE c \in (0 .. Width(g) - 1) \X (0 .. Height(g) - 1) \X (0 .. Depth(g) - 1) :
        RowMajor(g, c[1], c[2], c[3]) = i

Ge(a, b) == ~a.nan /\ ~b.nan /\ a.q >= b.q

InUnit(v) == ~v.nan /\ 0 <= v.q /\ v.q <= One

Clamp(v) == IF v.q < 0 THEN F(0) ELSE IF v.q > One THEN F(One) ELSE v

Normalized(g) == \A i \in 1 .. Len(g.voxels) : InUnit(g.voxels[i])

\* ------------------------------------------------------------------ C1
\* C1: index-coordinate conversion is a bijection over [0, w*h*d): for every valid
\* coordinate getCoordinate(getIndex(x,y,z)) = (x,y,z), and for every valid index
\* getIndex(getCoordinate(i)) = i, with getIndex the row-major w*h*z + w*y + x.
C1_Bijection ==
    [][ /\ \A x \in Coords, y \in Coords, z \in Coords :
              (getIndex("vg", x, y, z) /\ InBounds(Vg, x, y, z)) =>
                  /\ ret'.fault = "none"
                  /\ ret'.idx = RowMajor(Vg, x, y, z)
                  /\ getCoordinateOf(Vg, ret'.idx).fault = "none"
                  /\ getCoordinateOf(Vg, ret'.idx).coord = <<x, y, z>>
        /\ \A i \in Indexes :
              (getCoordinate("vg", i) /\ i < Cells(Vg)) =>
                  /\ ret'.fault = "none"
                  /\ getIndexOf(Vg, ret'.coord[1], ret'.coord[2], ret'.coord[3]).fault = "none"
                  /\ getIndexOf(Vg, ret'.coord[1], ret'.coord[2], ret'.coord[3]).idx = i
      ]_vars

\* ------------------------------------------------------------------ C2
\* C2: Copy() of a constructed and mutated grid returns a grid with the same
\* resolution and dimensions whose Get equals the original's Get at every valid
\* coordinate, and a later mutation of the copy leaves the original unchanged.
C2_CopyIndependent ==
    [][ /\ Copy("vg") =>
              /\ ret'.grid = "newGrid"
              /\ grids'["newGrid"].resolution = Vg.resolution
              /\ grids'["newGrid"].counts = Vg.counts
              /\ \A x \in Coords, y \in Coords, z \in Coords :
                    InBounds(Vg, x, y, z) =>
                        GetOf(grids'["newGrid"], x, y, z) = GetOf(Vg, x, y, z)
        /\ ( \/ \E x \in Coords, y \in Coords, z \in Coords, vox \in Values :
                   Set("newGrid", x, y, z, vox)
             \/ \E value \in Values : Fill("newGrid", value)
             \/ \E seed \in Seeds : Randomize("newGrid", seed)
             \/ \E tolerance \in Values : HighPass("newGrid", tolerance) )
           => grids'["vg"] = Vg
      ]_vars

\* ------------------------------------------------------------------ C3
\* the part of C3 about one grid r
C3_For(r) ==
    \A x \in Coords, y \in Coords, z \in Coords :
        /\ getIndex(r, x, y, z) =>
              /\ ret'.fault # "none" <=> ~InBounds(grids[r], x, y, z)
              /\ InBounds(grids[r], x, y, z) =>
                    /\ ret'.idx = RowMajor(grids[r], x, y, z)
                    /\ ret'.idx < Cells(grids[r])
        /\ Get(r, x, y, z) =>
              /\ ret'.fault # "none" <=> ~InBounds(grids[r], x, y, z)
              /\ ret'.fault # "range"
        /\ \A vox \in Values :
              Set(r, x, y, z, vox) =>
                  /\ ret'.fault # "none" <=> ~InBounds(grids[r], x, y, z)
                  /\ ret'.fault # "range"
                  /\ ret'.fault # "none" => grids' = grids

\* C3: getIndex, Get and Set fault exactly when a coordinate is >= its dimension,
\* a faulting Get or Set leaves every cell unchanged, a valid getIndex returns
\* w*h*z + w*y + x < w*h*d, and a valid Get or Set never accesses the cell array
\* out of range.
C3_FaultExactlyOutOfBounds == [][\A r \in Names : C3_For(r)]_vars

\* C3 on the grid NewVoxelGrid returned
C3_OnConstructed == [][C3_For("vg")]_vars

\* ------------------------------------------------------------------ C4
\* C4: getCoordinate faults for every index >= w*h*d, the boundary index w*h*d
\* included, and for every index < w*h*d returns x < w, y < h, z < d.
C4_IndexFault ==
    [][ \A i \in Indexes :
            getCoordinate("vg", i) =>
                /\ i >= Cells(Vg) => ret'.fault # "none"
                /\ i < Cells(Vg) =>
                      /\ ret'.fault = "none"
                      /\ InBounds(Vg, ret'.coord[1], ret'.coord[2], ret'.coord[3])
      ]_vars

\* ------------------------------------------------------------------ C5
\* the corners of a 2x2x2 grid
Corners == {0, 1} \X {0, 1} \X {0, 1}

\* g is 2x2x2, corner c holds 1 and the seven others hold 0
SingleCorner(g, c) ==
    /\ g.counts = <<2, 2, 2>>
    /\ Len(g.voxels) = 8
    /\ \A k \in Corners :
          GetOf(g, k[1], k[2], k[3]).val = (IF k = c THEN F(One) ELSE F(0))

\* the world-space point p = <<x, y, z>> of fractions <<n, den>> lies strictly
\* inside one of the three cube edges that meet at corner c
OnEdgeAt(g, p, c) ==
    \E a \in 1 .. 3 :
        /\ p[a][2] > 0
        /\ 0 < p[a][1] * g.resolution /\ p[a][1] * g.resolution < p[a][2]
        /\ \A b \in (1 .. 3) \ {a} : p[b][1] * g.resolution = c[b] * p[b][2]

\* C5: extracting a 2x2x2 grid with exactly one corner at 1 and seven at 0 yields
\* exactly one triangle, its three vertices on the three edges at that corner.
C5_SingleCube ==
    \A c \in Corners :
        (op.name = "Mesh" /\ op.recv = "vg" /\ SingleCorner(Vg, c)) =>
            /\ Len(ret.triangles) = 1
            /\ \A t \in 1 .. Len(ret.triangles) : \A k \in 1 .. 3 :
                  OnEdgeAt(Vg, ret.triangles[t][k], c)

\* ------------------------------------------------------------------ C6
\* indexes of the cells holding a value >= 0.5, ascending
RECURSIVE SolidFrom(_, _)
SolidFrom(g, i) ==
    IF i >= Len(g.voxels) THEN <<>>
    ELSE (IF Ge(g.voxels[i + 1], F(Half)) THEN <<i>> ELSE <<>>) \o SolidFrom(g, i + 1)

\* no cell of g holds NaN
AllNumbers(g) == \A i \in 1 .. Len(g.voxels) : ~g.voxels[i].nan

\* C6: VertexPoints returns, in ascending index order, one point per cell whose
\* value is >= 0.5 and none for any other cell, the k-th point being the row-major
\* coordinate of the k-th such cell divided by the resolution (stated here for
\* grids whose cells are all numbers).
C6_VertexPoints ==
    (op.name = "VertexPoints" /\ op.recv = "vg" /\ AllNumbers(Vg)) =>
        LET solid == SolidFrom(Vg, 0)
        IN  /\ ret.fault = "none"
            /\ Len(ret.points) = Len(solid)
            /\ \A k \in 1 .. Len(solid) :
                  k <= Len(ret.points) =>
                      LET c == RowMajorCoord(Vg, solid[k])
                      IN  ret.points[k] = <<Quot(c[1], Vg.resolution),
                                            Quot(c[2], Vg.resolution),
                                            Quot(c[3], Vg.resolution)>>

\* ------------------------------------------------------------------ C7
\* the part of C7 about one grid r
C7_For(r) ==
    /\ \A value \in Values :
          Fill(r, value) =>
              /\ ret'.grid = r
              /\ grids'[r].counts = grids[r].counts
              /\ grids'[r].resolution = grids[r].resolution
              /\ FillOf(grids[r], value) = FillOf(grids[r], Clamp(value))
    /\ \A x \in Coords, y \in Coords, z \in Coords :
          ( /\ op.name = "Fill" /\ op.recv = r /\ ~op.val.nan
            /\ Get(r, x, y, z) /\ InBounds(grids[r], x, y, z) ) =>
              /\ ret'.fault = "none"
              /\ ret'.val = Clamp(op.val)

\* C7: after Fill(v), for any number v, a following Get on any valid coordinate
\* returns clamp(v,0,1); Fill(1.5) leaves the grid as Fill(1.0) does; Fill keeps
\* dimensions and resolution and returns the grid it was called on.
C7_FillClamps == [][\A r \in Names : C7_For(r)]_vars

\* C7 on the grid NewVoxelGrid returned
C7_OnConstructed == [][C7_For("vg")]_vars

\* ------------------------------------------------------------------ C8
\* C8: HighPass(t) replaces every cell by 1 if its previous value is strictly
\* greater than t and by 0 otherwise (a cell equal to t becomes 0); afterwards
\* every cell is 0 or 1 and the number of cells and the dimensions are unchanged.
C8_HighPass ==
    [][ op'.name = "HighPass" =>
            LET r         == op'.recv
                tolerance == op'.val
            IN  /\ ret'.grid = r
                /\ grids'[r].counts = grids[r].counts
                /\ Len(grids'[r].voxels) = Len(grids[r].voxels)
                /\ \A i \in 1 .. Len(grids[r].voxels) :
                      /\ grids'[r].voxels[i] \in {F(0), F(One)}
                      /\ grids'[r].voxels[i] = F(One) <=>
                            (~grids[r].voxels[i].nan /\ ~tolerance.nan
                             /\ grids[r].voxels[i].q > tolerance.q)
                      /\ grids[r].voxels[i] = tolerance => grids'[r].voxels[i] = F(0)
      ]_vars

\* HighPass(0.5) has run on a grid and left both a 1 and a 0
C8_Witness ==
    /\ op.name = "HighPass" /\ op.val = F(Half)
    /\ \E i \in 1 .. Len(grids[op.recv].voxels) : grids[op.recv].voxels[i] = F(One)
    /\ \E i \in 1 .. Len(grids[op.recv].voxels) : grids[op.recv].voxels[i] = F(0)

\* ------------------------------------------------------------------ C9
\* C9: in every grid state reachable from construction by Set, Fill, Randomize and
\* HighPass calls with arbitrary arguments, every cell value is in [0,1].
C9_AlwaysNormalized == \A r \in Names : Normalized(grids[r])

\* the step is a Set of a value outside [0,1], or a Fill(NaN)
Unnormalized ==
    \/ op'.name = "Set" /\ ~InUnit(op'.val)
    \/ op'.name = "Fill" /\ op'.val.nan

\* C9 as amended: every cell value stays in [0,1] across every call that is
\* neither a Set of a value outside [0,1] nor a Fill(NaN); the grid is all 0 at
\* construction.
C9_NormalizedUnlessRawSet ==
    [][ ((\A r \in Names : Normalized(grids[r])) /\ ~Unnormalized)
            => (\A r \in Names : Normalized(grids'[r])) ]_vars

\* a second mutator call was a Set of 0.5 and left a grid holding 0.5 and normalized
C9_Witness ==
    /\ ncalls = MaxCalls
    /\ op.name = "Set" /\ op.val = F(Half) /\ ret.fault = "none"
    /\ \E i \in 1 .. Len(grids[op.recv].voxels) : grids[op.recv].voxels[i] = F(Half)
    /\ \E i \in 1 .. Len(grids[op.recv].voxels) : grids[op.recv].voxels[i] = F(One)
    /\ Normalized(grids[op.recv])

\* ----------------------------------------------------------------- C10
\* C10: constructing a grid with resolution 0 fails and returns no grid, so no
\* constructed grid has resolution 0.
C10_NoZeroResolution == Vg.live => Vg.resolution # 0
====
